---- MODULE Spec2Model ----
(***************************************************************************)
(* The postgres_content plugin: the projection of finalized blocks into    *)
(* the two relational tables indexer_content_cards and indexer_permissions.*)
(*                                                                         *)
(* The plugin builds one SQL statement per write and hands it to the       *)
(* store with PQexec.  A statement is modelled as a record of the SQL      *)
(* texts it carries (quoted literals, rendered integers); the store parses *)
(* these texts back into column values, checks them against the column     *)
(* types of create_tables and applies the statement atomically.            *)
(*                                                                         *)
(* The columns id (SERIAL) and created_at (CURRENT_TIMESTAMP) are assigned *)
(* by the store on insert and are never written by the plugin; they are    *)
(* left out of the rows.  The strings of the inputs carry no quote and no  *)
(* backslash character.                                                    *)
(***************************************************************************)
EXTENDS Integers, Sequences, FiniteSets, TLC

VARIABLES
    phase,          \* "constructed", "initialized", "started", "disabled",
                    \* "connect_failed", "bootstrap_failed" (plugin_startup threw)
    _postgres_url,  \* impl::_postgres_url
    _start_block,   \* impl::_start_block
    pg_conn,        \* impl::pg_conn is a live connection (TRUE) or nullptr (FALSE)
    subscribed,     \* the applied_block signal is connected to on_block
    tables_exist,   \* the store holds the two tables
    cards,          \* indexer_content_cards: content_card_id -> row
    perms,          \* indexer_permissions: permission_id -> row
    blk,            \* the block on_block was last called with
    hist,           \* db.get_applied_operations() of that block, as far as iterated
    idx,            \* number of entries of hist the loop of on_block has passed
    pc,             \* "idle" (outside on_block) or "loop" (inside its for loop)
    pass,           \* 1: the first projection of blk, 2: its second projection
    call,           \* the handler call of the latest loop iteration
    log,            \* the statements given to execute_sql in this projection
    prev_cards,     \* cards before the latest loop iteration
    prev_perms,     \* perms before the latest loop iteration
    first_cards,    \* cards at the end of the previous projection of blk
    first_perms,    \* perms at the end of the previous projection of blk
    nblocks,        \* blocks delivered so far
    nops,           \* entries of applied-operation lists iterated so far
    faults_left,    \* statements the store may still fail for reasons of its own
    room_op,        \* the room operation handed to validate()
    room_valid      \* "unchecked", or the outcome of validate(): "accepted", "rejected"

vars == <<phase, _postgres_url, _start_block, pg_conn, subscribed, tables_exist,
          cards, perms, blk, hist, idx, pc, pass, call, log, prev_cards,
          prev_perms, first_cards, first_perms, nblocks, nops, faults_left,
          room_op, room_valid>>

(***************************************************************************)
(* Bounds of the model.                                                    *)
(***************************************************************************)
MaxOps == 2      \* entries of the applied-operation lists of all blocks together
MaxBlocks == 2   \* blocks the chain delivers
MaxFaults == 1   \* statements the store fails for reasons of its own
MaxFee == 2      \* largest fee amount of a room operation

(***************************************************************************)
(* Column widths of create_tables.                                         *)
(***************************************************************************)
IdWidth == 32
HashWidth == 256
TypeWidth == 64
TrxWidth == 64

(***************************************************************************)
(* Longest room name validate() accepts.                                   *)
(***************************************************************************)
RoomNameMax == 256

(***************************************************************************)
(* Object identifiers and their text form.                                 *)
(***************************************************************************)
Oid(s, t, i) == [space |-> s, type |-> t, instance |-> i]

\* std::string(object_id_type): "space.type.instance"
OidStr(o) == ToString(o.space) \o "." \o ToString(o.type) \o "." \o ToString(o.instance)

\* the order of flat_set<object_id_type>: by space, then type, then instance
OidLess(a, c) ==
    \/ a.space < c.space
    \/ a.space = c.space /\ a.type < c.type
    \/ a.space = c.space /\ a.type = c.type /\ a.instance < c.instance

RECURSIVE FlatSetSeq(_)
\* the elements of a flat_set in iteration order (begin() to end())
FlatSetSeq(S) ==
    IF S = {} THEN <<>>
    ELSE LET m == CHOOSE a \in S : \A c \in S \ {a} : OidLess(a, c)
         IN  <<m>> \o FlatSetSeq(S \ {m})

Some(v) == [valid |-> TRUE, value |-> v]
None == [valid |-> FALSE]

(***************************************************************************)
(* Inputs: blocks, transactions, operations and their results.             *)
(***************************************************************************)
\* transaction_id_type::str(): the 40 hexadecimal digits of a ripemd160 hash
TrxId(n, k) == "0123456789abcdef0123456789abcdef0123" \o ToString(n) \o ToString(k)

\* signed_block: block_num(), timestamp (seconds since epoch), transactions
Block(n) ==
    [num |-> n, timestamp |-> 1700000000 + 3 * n,
     transactions |-> <<TrxId(n, 0), TrxId(n, 1)>>]

NoBlock == [num |-> 0, timestamp |-> 0, transactions |-> <<>>]

\* values of the option postgres-content-start-block (default 0)
StartBlocks == {0, 101}

\* operation_result: void_result(0), object_id_type(1), asset(2),
\* generic_operation_result(3)
VoidResult == [which |-> 0]
IdResult(o) == [which |-> 1, id |-> o]
AssetResult == [which |-> 2]
GenericResult(S) == [which |-> 3, new_objects |-> S]

\* permission_create_operation: the subject account and the fields it shares
\* with one item of permission_create_many_operation
PermPayload(subject, item) ==
    [subject_account |-> subject, operator_account |-> item.operator_account,
     permission_type |-> item.permission_type, object_id |-> item.object_id,
     content_key |-> item.content_key]

\* one optional<operation_history_object> of the applied-operation list
Applied(w, o, r, t) == [valid |-> TRUE, which |-> w, op |-> o, result |-> r, trx_in_block |-> t]
Absent == [valid |-> FALSE]

P1 == [subject_account |-> Oid(1, 2, 5), hash |-> "abcd", url |-> "ipfs://a",
       type |-> "post", description |-> "first", content_key |-> "k1",
       storage_data |-> "s1"]
P2 == [subject_account |-> Oid(1, 2, 6), hash |-> "ef01", url |-> "ipfs://b",
       type |-> "note", description |-> "second", content_key |-> "k2",
       storage_data |-> "s2"]
I1 == [operator_account |-> Oid(1, 2, 6), permission_type |-> "view",
       object_id |-> Some(Oid(1, 7, 3)), content_key |-> "ck1"]
I2 == [operator_account |-> Oid(1, 2, 7), permission_type |-> "edit",
       object_id |-> None, content_key |-> "ck2"]

\* The applied operations the blocks are drawn from.  A block carries two
\* transactions, so that the transaction-in-block indexes 0 and 1 are in range
\* and 2 is past the end of the list.
CardCreates ==
    { Applied(41, P1, IdResult(Oid(1, 7, 3)), 0),
      Applied(41, P2, VoidResult, 1),
      Applied(41, P2, GenericResult({Oid(1, 7, 3)}), 2) }
CardUpdates ==
    { Applied(42, P1, IdResult(Oid(1, 7, 3)), 0),
      Applied(42, P2, IdResult(Oid(1, 7, 3)), 1) }
CardRemoves ==
    { Applied(43, [content_id |-> Oid(1, 7, 3)], VoidResult, 1) }
PermCreates ==
    { Applied(44, PermPayload(Oid(1, 2, 5), I1), IdResult(Oid(1, 8, 1)), 0),
      Applied(44, PermPayload(Oid(1, 2, 5), I2), AssetResult, 2) }
PermRemoves ==
    { Applied(45, [permission_id |-> Oid(1, 8, 1)], VoidResult, 1) }
Many(items, r, t) ==
    Applied(64, [subject_account |-> Oid(1, 2, 6), permissions |-> items], r, t)
PermCreateManys ==
    { Many(<<I1, I2>>, GenericResult({Oid(1, 8, 2)}), 0),
      Many(<<I2, I1>>, GenericResult({Oid(1, 8, 2), Oid(1, 8, 1)}), 2),
      Many(<<I1>>, GenericResult({Oid(1, 8, 2), Oid(1, 8, 1)}), 1),
      Many(<<I1, I2>>, IdResult(Oid(1, 8, 1)), 2) }
\* an operation kind the plugin does not project (0 is the transfer operation)
Others == { Applied(0, [amount |-> 1], VoidResult, 0) }

Entries == CardCreates \cup CardUpdates \cup CardRemoves \cup PermCreates
             \cup PermRemoves \cup PermCreateManys \cup Others \cup {Absent}

(***************************************************************************)
(* The store: the schema of create_tables and the execution of one         *)
(* statement.                                                              *)
(***************************************************************************)
CardsTable == "indexer_content_cards"
PermsTable == "indexer_permissions"

Varchar(n) == [base |-> "varchar", width |-> n]
Text == [base |-> "text", width |-> 0]
Bigint == [base |-> "int", width |-> 0]
Smallint == [base |-> "int", width |-> 0]
Timestamp == [base |-> "timestamp", width |-> 0]
Boolean == [base |-> "bool", width |-> 0]

\* the columns the plugin writes, with their types
CardSchema ==
    [content_card_id |-> Varchar(IdWidth), subject_account |-> Varchar(IdWidth),
     hash |-> Varchar(HashWidth), url |-> Text, type |-> Varchar(TypeWidth),
     description |-> Text, content_key |-> Text, storage_data |-> Text,
     block_num |-> Bigint, block_time |-> Timestamp, trx_id |-> Varchar(TrxWidth),
     operation_type |-> Smallint, is_removed |-> Boolean]

PermSchema ==
    [permission_id |-> Varchar(IdWidth), subject_account |-> Varchar(IdWidth),
     operator_account |-> Varchar(IdWidth), permission_type |-> Varchar(TypeWidth),
     object_id |-> Varchar(IdWidth), content_key |-> Text,
     block_num |-> Bigint, block_time |-> Timestamp, trx_id |-> Varchar(TrxWidth),
     operation_type |-> Smallint, is_removed |-> Boolean]

Schema(table) == IF table = CardsTable THEN CardSchema ELSE PermSchema

\* the column of the UNIQUE constraint
UniqueColumn(table) == IF table = CardsTable THEN "content_card_id" ELSE "permission_id"

EmptyTable == [k \in {} |-> k]

CharAt(t, i) == SubSeq(t, i, i)

Digit(c) ==
    CASE c = "0" -> 0 [] c = "1" -> 1 [] c = "2" -> 2 [] c = "3" -> 3 [] c = "4" -> 4
      [] c = "5" -> 5 [] c = "6" -> 6 [] c = "7" -> 7 [] c = "8" -> 8 [] c = "9" -> 9
      [] OTHER -> -1

IsNumber(t) == Len(t) > 0 /\ \A i \in 1..Len(t) : Digit(CharAt(t, i)) >= 0

RECURSIVE ParseInt(_)
ParseInt(t) ==
    IF Len(t) = 0 THEN 0
    ELSE 10 * ParseInt(SubSeq(t, 1, Len(t) - 1)) + Digit(CharAt(t, Len(t)))

IsQuoted(t) == Len(t) >= 2 /\ CharAt(t, 1) = "'" /\ CharAt(t, Len(t)) = "'"
Unquote(t) == SubSeq(t, 2, Len(t) - 1)

IsToTimestamp(t) ==
    /\ Len(t) > 14
    /\ SubSeq(t, 1, 13) = "to_timestamp("
    /\ CharAt(t, Len(t)) = ")"
    /\ IsNumber(SubSeq(t, 14, Len(t) - 1))

\* a SQL text is a well-formed value of the column type and fits its width
ValidFor(t, ty) ==
    CASE ty.base = "varchar" -> IsQuoted(t) /\ Len(Unquote(t)) <= ty.width
      [] ty.base = "text" -> IsQuoted(t)
      [] ty.base = "int" -> IsNumber(t)
      [] ty.base = "timestamp" -> IsToTimestamp(t)
      [] ty.base = "bool" -> t \in {"TRUE", "FALSE"}

\* the value a SQL text denotes
ValueOf(t, ty) ==
    CASE ty.base \in {"varchar", "text"} -> Unquote(t)
      [] ty.base = "int" -> ParseInt(t)
      [] ty.base = "timestamp" -> ParseInt(SubSeq(t, 14, Len(t) - 1))
      [] ty.base = "bool" -> (t = "TRUE")

IsExcluded(e) == Len(e) > 9 /\ SubSeq(e, 1, 9) = "EXCLUDED."

\* the value an expression of the DO UPDATE SET list gives a column
SetValue(e, ty, excluded) ==
    IF IsExcluded(e) THEN excluded[SubSeq(e, 10, Len(e))] ELSE ValueOf(e, ty)

InsertWellFormed(stmt, sch) ==
    /\ DOMAIN stmt.values = DOMAIN sch
    /\ \A c \in DOMAIN sch : ValidFor(stmt.values[c], sch[c])
    /\ DOMAIN stmt.conflict \subseteq DOMAIN sch
    /\ \A c \in DOMAIN stmt.conflict :
          \/ IsExcluded(stmt.conflict[c])
               /\ SubSeq(stmt.conflict[c], 10, Len(stmt.conflict[c])) \in DOMAIN sch
          \/ ValidFor(stmt.conflict[c], sch[c])

\* the row proposed for insertion, which is appended when its key is new and
\* otherwise feeds the DO UPDATE SET list applied to the row that has the key
Upsert(stmt, tab, sch, excluded, key) ==
    IF key \notin DOMAIN tab
    THEN (key :> excluded) @@ tab
    ELSE [tab EXCEPT ![key] =
            [c \in DOMAIN sch |->
                IF c \in DOMAIN stmt.conflict
                THEN SetValue(stmt.conflict[c], sch[c], excluded) ELSE tab[key][c]]]

InsertRow(stmt, tab, sch, excluded) ==
    Upsert(stmt, tab, sch, excluded, excluded[UniqueColumn(stmt.table)])

\* INSERT INTO table (columns) VALUES (values)
\*   ON CONFLICT (unique column) DO UPDATE SET conflict
ExecInsertIn(stmt, tab, sch) ==
    IF ~InsertWellFormed(stmt, sch) THEN [ok |-> FALSE, tab |-> tab]
    ELSE [ok |-> TRUE,
          tab |-> InsertRow(stmt, tab, sch, [c \in DOMAIN sch |-> ValueOf(stmt.values[c], sch[c])])]

ExecInsert(stmt, tab) == ExecInsertIn(stmt, tab, Schema(stmt.table))

UpdateWellFormed(stmt, sch) ==
    /\ DOMAIN stmt.set \subseteq DOMAIN sch
    /\ \A c \in DOMAIN stmt.set : ValidFor(stmt.set[c], sch[c])
    /\ IsQuoted(stmt.where)

\* an UPDATE that deletes the row it addresses
ExecUpdateDeleting(stmt, tab, sch) ==
    IF ~UpdateWellFormed(stmt, sch) THEN [ok |-> FALSE, tab |-> tab]
    ELSE [ok |-> TRUE,
          tab |-> [k \in DOMAIN tab \ {Unquote(stmt.where)} |-> tab[k]]]

\* UPDATE table SET set WHERE unique column = where
ExecUpdateIn(stmt, tab, sch) ==
    IF ~UpdateWellFormed(stmt, sch) THEN [ok |-> FALSE, tab |-> tab]
    ELSE [ok |-> TRUE,
          tab |-> [k \in DOMAIN tab |->
                     IF k = Unquote(stmt.where)
                     THEN [c \in DOMAIN sch |->
                             IF c \in DOMAIN stmt.set
                             THEN ValueOf(stmt.set[c], sch[c]) ELSE tab[k][c]]
                     ELSE tab[k]]]

ExecUpdate(stmt, tab) == ExecUpdateIn(stmt, tab, Schema(stmt.table))

Exec(sql, tab) ==
    IF sql.verb = "INSERT" THEN ExecInsert(sql, tab) ELSE ExecUpdate(sql, tab)

\* the store after the statement: its table replaced, the other table as it was
Stored(sql, cs, ps, r) ==
    IF sql.table = CardsTable
    THEN [ok |-> r.ok, cards |-> r.tab, perms |-> ps]
    ELSE [ok |-> r.ok, cards |-> cs, perms |-> r.tab]

\* PQexec and PQresultStatus: the statement is applied whole or not at all.
\* fault: the store fails the statement for a reason of its own.
PQexec(sql, fault, cs, ps) ==
    IF fault \/ ~tables_exist THEN [ok |-> FALSE, cards |-> cs, perms |-> ps]
    ELSE Stored(sql, cs, ps, Exec(sql, IF sql.table = CardsTable THEN cs ELSE ps))

(***************************************************************************)
(* The relational sink of the plugin.                                      *)
(***************************************************************************)
\* PQescapeLiteral of a string without quote or backslash: the string in quotes
escape_string(input) == IF ~pg_conn THEN input ELSE "'" \o input \o "'"

\* execute_sql that reports success when there is no connection
execute_sql_silent_success(sql, fault, cs, ps) ==
    IF ~pg_conn THEN [ok |-> TRUE, cards |-> cs, perms |-> ps]
    ELSE PQexec(sql, fault, cs, ps)

execute_sql(sql, fault, cs, ps) ==
    IF ~pg_conn THEN [ok |-> FALSE, cards |-> cs, perms |-> ps]
    ELSE PQexec(sql, fault, cs, ps)

to_string(n) == ToString(n)

(***************************************************************************)
(* The entity handlers.  Each yields the statements it gives to            *)
(* execute_sql, in order.                                                  *)
(***************************************************************************)
to_timestamp(block_time) == "to_timestamp(" \o to_string(block_time) \o ")"

\* the mutable fields of a content card
CardMutable == {"hash", "url", "type", "description", "content_key", "storage_data"}

CardValues(content_card_id, op, block_num, block_time, trx_id, code) ==
    [content_card_id |-> escape_string(content_card_id),
     subject_account |-> escape_string(OidStr(op.subject_account)),
     hash |-> escape_string(op.hash),
     url |-> escape_string(op.url),
     type |-> escape_string(op.type),
     description |-> escape_string(op.description),
     content_key |-> escape_string(op.content_key),
     storage_data |-> escape_string(op.storage_data),
     block_num |-> to_string(block_num),
     block_time |-> to_timestamp(block_time),
     trx_id |-> escape_string(trx_id),
     operation_type |-> code,
     is_removed |-> "FALSE"]

PermValues(permission_id, subject, perm, block_num, block_time, trx_id, code) ==
    [permission_id |-> escape_string(permission_id),
     subject_account |-> escape_string(OidStr(subject)),
     operator_account |-> escape_string(OidStr(perm.operator_account)),
     permission_type |-> escape_string(perm.permission_type),
     object_id |-> escape_string(IF perm.object_id.valid
                                 THEN OidStr(perm.object_id.value) ELSE ""),
     content_key |-> escape_string(perm.content_key),
     block_num |-> to_string(block_num),
     block_time |-> to_timestamp(block_time),
     trx_id |-> escape_string(trx_id),
     operation_type |-> code,
     is_removed |-> "FALSE"]

get_object_id_from_result(result) ==
    IF result.which = 1 THEN OidStr(result.id) ELSE ""

\* handle_content_card_create with the DO UPDATE SET list of the update
create_with_update_conflict(op, block_num, block_time, trx_id, object_id) ==
    LET content_card_id == IF object_id = "" THEN "pending-" \o trx_id ELSE object_id
    IN  << [verb |-> "INSERT", table |-> CardsTable,
            values |-> CardValues(content_card_id, op, block_num, block_time, trx_id, "41"),
            conflict |-> [c \in CardMutable \cup {"block_num", "block_time", "operation_type"} |->
                            IF c = "operation_type" THEN "41" ELSE "EXCLUDED." \o c]] >>

handle_content_card_create(op, block_num, block_time, trx_id, object_id) ==
    LET content_card_id == IF object_id = "" THEN "pending-" \o trx_id ELSE object_id
    IN  << [verb |-> "INSERT", table |-> CardsTable,
            values |-> CardValues(content_card_id, op, block_num, block_time, trx_id, "41"),
            conflict |-> [c \in CardMutable |-> "EXCLUDED." \o c]] >>

\* handle_content_card_update that writes in two statements: the upsert of
\* the payload, then an UPDATE of the lifecycle columns
update_in_two_statements(op, block_num, block_time, trx_id, object_id) ==
    LET content_card_id == IF object_id = "" THEN "pending-" \o trx_id ELSE object_id
    IN  << [verb |-> "INSERT", table |-> CardsTable,
            values |-> CardValues(content_card_id, op, block_num, block_time, trx_id, "42"),
            conflict |-> [c \in CardMutable |-> "EXCLUDED." \o c]],
           [verb |-> "UPDATE", table |-> CardsTable,
            set |-> [block_num |-> to_string(block_num),
                     block_time |-> to_timestamp(block_time), operation_type |-> "42"],
            where |-> escape_string(content_card_id)] >>

\* handle_content_card_update with storage_data left out of its DO UPDATE SET list
update_without_storage_data(op, block_num, block_time, trx_id, object_id) ==
    LET content_card_id == IF object_id = "" THEN "pending-" \o trx_id ELSE object_id
    IN  << [verb |-> "INSERT", table |-> CardsTable,
            values |-> CardValues(content_card_id, op, block_num, block_time, trx_id, "42"),
            conflict |-> [c \in (CardMutable \ {"storage_data"})
                                  \cup {"block_num", "block_time", "operation_type"} |->
                            IF c = "operation_type" THEN "42" ELSE "EXCLUDED." \o c]] >>

\* handle_content_card_update whose DO UPDATE SET list also takes trx_id
update_taking_trx_id(op, block_num, block_time, trx_id, object_id) ==
    LET content_card_id == IF object_id = "" THEN "pending-" \o trx_id ELSE object_id
    IN  << [verb |-> "INSERT", table |-> CardsTable,
            values |-> CardValues(content_card_id, op, block_num, block_time, trx_id, "42"),
            conflict |-> [c \in CardMutable \cup {"block_num", "block_time",
                                                  "operation_type", "trx_id"} |->
                            IF c = "operation_type" THEN "42" ELSE "EXCLUDED." \o c]] >>

\* handle_content_card_update whose DO UPDATE SET list also takes is_removed
update_reviving_row(op, block_num, block_time, trx_id, object_id) ==
    LET content_card_id == IF object_id = "" THEN "pending-" \o trx_id ELSE object_id
    IN  << [verb |-> "INSERT", table |-> CardsTable,
            values |-> CardValues(content_card_id, op, block_num, block_time, trx_id, "42"),
            conflict |-> [c \in CardMutable \cup {"block_num", "block_time",
                                                  "operation_type", "is_removed"} |->
                            IF c = "operation_type" THEN "42" ELSE "EXCLUDED." \o c]] >>

handle_content_card_update(op, block_num, block_time, trx_id, object_id) ==
    LET content_card_id == IF object_id = "" THEN "pending-" \o trx_id ELSE object_id
    IN  << [verb |-> "INSERT", table |-> CardsTable,
            values |-> CardValues(content_card_id, op, block_num, block_time, trx_id, "42"),
            conflict |-> [c \in CardMutable \cup {"block_num", "block_time", "operation_type"} |->
                            IF c = "operation_type" THEN "42" ELSE "EXCLUDED." \o c]] >>

\* handle_content_card_remove that upserts a tombstone instead of updating
remove_as_upsert(op, block_num, block_time, trx_id) ==
    << [verb |-> "INSERT", table |-> CardsTable,
        values |-> [content_card_id |-> escape_string(OidStr(op.content_id)),
                    subject_account |-> escape_string(""),
                    hash |-> escape_string(""), url |-> escape_string(""),
                    type |-> escape_string(""), description |-> escape_string(""),
                    content_key |-> escape_string(""), storage_data |-> escape_string(""),
                    block_num |-> to_string(block_num),
                    block_time |-> to_timestamp(block_time),
                    trx_id |-> escape_string(trx_id),
                    operation_type |-> "43", is_removed |-> "TRUE"],
        conflict |-> [c \in {"is_removed", "block_num", "block_time", "operation_type"} |->
                        "EXCLUDED." \o c]] >>

handle_content_card_remove(op, block_num, block_time, trx_id) ==
    << [verb |-> "UPDATE", table |-> CardsTable,
        set |-> [is_removed |-> "TRUE", block_num |-> to_string(block_num),
                 block_time |-> to_timestamp(block_time), operation_type |-> "43"],
        where |-> escape_string(OidStr(op.content_id))] >>

\* handle_permission_create whose DO UPDATE SET list also takes the operator
permission_create_sets_operator(op, block_num, block_time, trx_id, new_object_id) ==
    LET permission_id == IF new_object_id = "" THEN "pending-" \o trx_id ELSE new_object_id
    IN  << [verb |-> "INSERT", table |-> PermsTable,
            values |-> PermValues(permission_id, op.subject_account, op,
                                  block_num, block_time, trx_id, "44"),
            conflict |-> [c \in {"permission_type", "content_key", "operator_account"} |->
                            "EXCLUDED." \o c]] >>

handle_permission_create(op, block_num, block_time, trx_id, new_object_id) ==
    LET permission_id == IF new_object_id = "" THEN "pending-" \o trx_id ELSE new_object_id
    IN  << [verb |-> "INSERT", table |-> PermsTable,
            values |-> PermValues(permission_id, op.subject_account, op,
                                  block_num, block_time, trx_id, "44"),
            conflict |-> [c \in {"permission_type", "content_key"} |-> "EXCLUDED." \o c]] >>

\* handle_permission_create_many without the ++obj_it: every item is paired
\* with the first identifier
create_many_first_id(op, block_num, block_time, trx_id, new_objects) ==
    LET ids == FlatSetSeq(new_objects)
        permission_id(i) ==
            IF Len(ids) > 0 THEN OidStr(ids[1])
            ELSE "pending-" \o trx_id \o "-" \o to_string(i - 1)
    IN  [i \in 1..Len(op.permissions) |->
            [verb |-> "INSERT", table |-> PermsTable,
             values |-> PermValues(permission_id(i), op.subject_account, op.permissions[i],
                                   block_num, block_time, trx_id, "64"),
             conflict |-> [c \in {"permission_type", "content_key"} |-> "EXCLUDED." \o c]]]

\* handle_permission_create_many that stamps the code of the single create
create_many_stamping_44(op, block_num, block_time, trx_id, new_objects) ==
    LET ids == FlatSetSeq(new_objects)
        permission_id(i) ==
            IF i <= Len(ids) THEN OidStr(ids[i])
            ELSE "pending-" \o trx_id \o "-" \o to_string(i - 1)
    IN  [i \in 1..Len(op.permissions) |->
            [verb |-> "INSERT", table |-> PermsTable,
             values |-> PermValues(permission_id(i), op.subject_account, op.permissions[i],
                                   block_num, block_time, trx_id, "44"),
             conflict |-> [c \in {"permission_type", "content_key"} |-> "EXCLUDED." \o c]]]

handle_permission_create_many(op, block_num, block_time, trx_id, new_objects) ==
    LET ids == FlatSetSeq(new_objects)
        permission_id(i) ==
            IF i <= Len(ids) THEN OidStr(ids[i])
            ELSE "pending-" \o trx_id \o "-" \o to_string(i - 1)
    IN  [i \in 1..Len(op.permissions) |->
            [verb |-> "INSERT", table |-> PermsTable,
             values |-> PermValues(permission_id(i), op.subject_account, op.permissions[i],
                                   block_num, block_time, trx_id, "64"),
             conflict |-> [c \in {"permission_type", "content_key"} |-> "EXCLUDED." \o c]]]

\* handle_permission_remove that does not refresh block_time
remove_without_block_time(op, block_num, block_time, trx_id) ==
    << [verb |-> "UPDATE", table |-> PermsTable,
        set |-> [is_removed |-> "TRUE", block_num |-> to_string(block_num),
                 operation_type |-> "45"],
        where |-> escape_string(OidStr(op.permission_id))] >>

handle_permission_remove(op, block_num, block_time, trx_id) ==
    << [verb |-> "UPDATE", table |-> PermsTable,
        set |-> [is_removed |-> "TRUE", block_num |-> to_string(block_num),
                 block_time |-> to_timestamp(block_time), operation_type |-> "45"],
        where |-> escape_string(OidStr(op.permission_id))] >>

(***************************************************************************)
(* The room operations of the protocol and their validate().               *)
(***************************************************************************)
Twice(s) == s \o s

\* a std::string of n chars
RECURSIVE NameOfSize(_)
NameOfSize(n) ==
    IF n = 0 THEN ""
    ELSE IF n % 2 = 0 THEN Twice(NameOfSize(n \div 2))
    ELSE "a" \o NameOfSize(n - 1)

\* fee.amount, a signed amount
Fees == -1..MaxFee

NameSizes == {0, 1, RoomNameMax - 1, RoomNameMax, RoomNameMax + 1}

RoomKeys == {"", "rk"}

RoomCreates ==
    {[kind |-> "room_create_operation", fee |-> [amount |-> a], owner |-> Oid(1, 2, 5),
      name |-> NameOfSize(n), room_key |-> k] :
        a \in Fees, n \in NameSizes, k \in RoomKeys}

RoomUpdates ==
    {[kind |-> "room_update_operation", fee |-> [amount |-> a], owner |-> Oid(1, 2, 5),
      room |-> Oid(1, 20, 0), name |-> NameOfSize(n)] :
        a \in Fees, n \in NameSizes}

NoRoomOp == [kind |-> "none"]

\* validate() of room_create_operation whose limit excludes the bound
room_create_validate_below_max(op) ==
    /\ op.fee.amount >= 0
    /\ op.name # ""
    /\ Len(op.name) < RoomNameMax
    /\ op.room_key # ""

\* room_create_operation::validate: TRUE when no FC_ASSERT throws
room_create_operation_validate(op) ==
    /\ op.fee.amount >= 0
    /\ op.name # ""
    /\ Len(op.name) <= RoomNameMax
    /\ op.room_key # ""

\* room_update_operation::validate: TRUE when no FC_ASSERT throws
room_update_operation_validate(op) ==
    /\ op.fee.amount >= 0
    /\ op.name # ""
    /\ Len(op.name) <= RoomNameMax

(***************************************************************************)
(* The state machine.                                                      *)
(***************************************************************************)
NoCall == [handler |-> "none"]

Init ==
    /\ phase = "constructed"
    /\ _postgres_url = ""
    /\ _start_block = 0
    /\ pg_conn = FALSE
    /\ subscribed = FALSE
    /\ tables_exist = FALSE
    /\ cards = EmptyTable
    /\ perms = EmptyTable
    /\ blk = NoBlock
    /\ hist = <<>>
    /\ idx = 0
    /\ pc = "idle"
    /\ pass = 0
    /\ call = NoCall
    /\ log = <<>>
    /\ prev_cards = EmptyTable
    /\ prev_perms = EmptyTable
    /\ first_cards = EmptyTable
    /\ first_perms = EmptyTable
    /\ nblocks = 0
    /\ nops = 0
    /\ faults_left = MaxFaults
    /\ room_op = NoRoomOp
    /\ room_valid = "unchecked"

store == <<cards, perms, prev_cards, prev_perms, first_cards, first_perms>>
projection == <<blk, hist, idx, pc, pass, call, log, nblocks, nops, faults_left>>
room == <<room_op, room_valid>>

\* plugin_initialize with the option postgres-content-url absent
plugin_initialize_disabled ==
    /\ phase = "constructed"
    /\ phase' = "initialized"
    /\ UNCHANGED <<_postgres_url, _start_block, pg_conn, subscribed, tables_exist>>
    /\ UNCHANGED <<store, projection>>
    /\ UNCHANGED room

\* plugin_initialize with the option postgres-content-url given
plugin_initialize ==
    /\ phase = "constructed"
    /\ \E start \in StartBlocks :
          /\ _postgres_url' = "postgresql://indexer@localhost/chain"
          /\ _start_block' = start
    /\ subscribed' = TRUE
    /\ phase' = "initialized"
    /\ UNCHANGED <<pg_conn, tables_exist>>
    /\ UNCHANGED <<store, projection>>
    /\ UNCHANGED room

\* plugin_startup without a configured url: the plugin stays disabled
plugin_startup_disabled ==
    /\ phase = "initialized"
    /\ _postgres_url = ""
    /\ phase' = "disabled"
    /\ UNCHANGED <<_postgres_url, _start_block, pg_conn, subscribed, tables_exist>>
    /\ UNCHANGED <<store, projection>>
    /\ UNCHANGED room

\* a failed connect_to_postgres that keeps the connection handle
startup_keeping_failed_handle ==
    /\ phase = "initialized"
    /\ _postgres_url # ""
    /\ pg_conn' = TRUE
    /\ phase' = "connect_failed"
    /\ UNCHANGED <<_postgres_url, _start_block, subscribed, tables_exist>>
    /\ UNCHANGED <<store, projection>>
    /\ UNCHANGED room

\* plugin_startup: connect_to_postgres fails and startup throws
plugin_startup_no_connection ==
    /\ phase = "initialized"
    /\ _postgres_url # ""
    /\ pg_conn' = FALSE
    /\ phase' = "connect_failed"
    /\ UNCHANGED <<_postgres_url, _start_block, subscribed, tables_exist>>
    /\ UNCHANGED <<store, projection>>
    /\ UNCHANGED room

\* plugin_startup: connect_to_postgres succeeds, then create_tables succeeds
\* (ok) or fails, in which case startup throws with the connection left open.
\* CREATE TABLE IF NOT EXISTS: the store may hold the tables of an earlier
\* session (found), whether or not the statement succeeds.
plugin_startup ==
    /\ phase = "initialized"
    /\ _postgres_url # ""
    /\ pg_conn' = TRUE
    /\ \E ok, found \in BOOLEAN :
          /\ tables_exist' = (ok \/ found \/ tables_exist)
          /\ phase' = IF ok THEN "started" ELSE "bootstrap_failed"
    /\ UNCHANGED <<_postgres_url, _start_block, subscribed>>
    /\ UNCHANGED <<store, projection>>
    /\ UNCHANGED room

config == <<phase, _postgres_url, _start_block, pg_conn, subscribed, tables_exist>>

\* on_block whose start-block test is <= instead of <
Enter_gating_start_block(b) ==
    /\ blk' = b
    /\ pc' = IF ~pg_conn \/ b.num <= _start_block THEN "idle" ELSE "loop"
    /\ idx' = 0
    /\ call' = NoCall
    /\ log' = <<>>
    /\ prev_cards' = cards
    /\ prev_perms' = perms
    /\ UNCHANGED <<cards, perms, faults_left>>

\* on_block up to its for loop: the two early returns
Enter(b) ==
    /\ blk' = b
    /\ pc' = IF ~pg_conn \/ b.num < _start_block THEN "idle" ELSE "loop"
    /\ idx' = 0
    /\ call' = NoCall
    /\ log' = <<>>
    /\ prev_cards' = cards
    /\ prev_perms' = perms
    /\ UNCHANGED <<cards, perms, faults_left>>

\* the applied_block signal delivers the next block of the chain
applied_block ==
    /\ pc = "idle"
    /\ subscribed
    /\ phase \in {"started", "connect_failed", "bootstrap_failed"}
    /\ nblocks < MaxBlocks
    /\ Enter(Block(100 + nblocks))
    /\ nblocks' = nblocks + 1
    /\ hist' = <<>>
    /\ UNCHANGED nops
    /\ pass' = 1
    /\ first_cards' = EmptyTable
    /\ first_perms' = EmptyTable
    /\ UNCHANGED config
    /\ UNCHANGED room

\* the applied_block signal delivers the latest block a second time (a replay)
replayed_block ==
    /\ pc = "idle"
    /\ subscribed
    /\ phase \in {"started", "connect_failed", "bootstrap_failed"}
    /\ pass = 1
    /\ Enter(blk)
    /\ pass' = 2
    /\ first_cards' = cards
    /\ first_perms' = perms
    /\ UNCHANGED <<hist, nblocks, nops>>
    /\ UNCHANGED config
    /\ UNCHANGED room

\* the next entry of the applied-operation list: a fresh one in the first
\* projection of a block, the recorded one in a replay
Take(e) ==
    /\ pc = "loop"
    /\ IF pass = 1
       THEN idx = Len(hist) /\ nops < MaxOps
       ELSE idx < Len(hist) /\ e = hist[idx + 1]

\* trx_id taken from the first transaction of the block whatever the index
TrxIdOfFirst(b, e) ==
    IF 0 < Len(b.transactions) THEN b.transactions[1] ELSE ""

\* trx_id of on_block: the id of the transaction at trx_in_block, or empty
TrxIdOf(b, e) ==
    IF e.trx_in_block < Len(b.transactions)
    THEN b.transactions[e.trx_in_block + 1] ELSE ""

RECURSIVE RunStatements(_, _, _, _, _)

Prepend(entry, rest) ==
    [cards |-> rest.cards, perms |-> rest.perms, out |-> <<entry>> \o rest.out]

\* a handler that returns at the first statement the store fails
Logged_stopping_at_failure(sql, fault, r, stmts, faults, i) ==
    Prepend([sql |-> sql, ok |-> r.ok, fault |-> fault],
            IF r.ok THEN RunStatements(stmts, faults, i + 1, r.cards, r.perms)
            ELSE [cards |-> r.cards, perms |-> r.perms, out |-> <<>>])

\* the outcome r of statement i is logged and the statements after it are run
Logged(sql, fault, r, stmts, faults, i) ==
    Prepend([sql |-> sql, ok |-> r.ok, fault |-> fault],
            RunStatements(stmts, faults, i + 1, r.cards, r.perms))

\* the statements of one handler call given to execute_sql one after the other
RunStatements(stmts, faults, i, cs, ps) ==
    IF i > Len(stmts) THEN [cards |-> cs, perms |-> ps, out |-> <<>>]
    ELSE Logged(stmts[i], i \in faults, execute_sql(stmts[i], i \in faults, cs, ps),
                stmts, faults, i)

\* the outcome r of the statements of one handler call becomes the state
Commit(faults, r) ==
    /\ cards' = r.cards
    /\ perms' = r.perms
    /\ log' = log \o [i \in 1..Len(r.out) |->
                        [at |-> idx + 1, sql |-> r.out[i].sql,
                         ok |-> r.out[i].ok, fault |-> r.out[i].fault]]
    /\ faults_left' = faults_left - Cardinality(faults)

\* one iteration of the loop of on_block that calls a handler.  The store
\* fails statements for reasons of its own (faults) in a session that started;
\* in the others it fails them for lack of tables or for their values.
Iterate(e, handler, object_id, new_objects, stmts) ==
    /\ \E faults \in SUBSET (1..Len(stmts)) :
          /\ Cardinality(faults) <= faults_left
          /\ faults # {} => phase = "started"
          /\ Commit(faults, RunStatements(stmts, faults, 1, cards, perms))
    /\ call' = [handler |-> handler, block_num |-> blk.num, block_time |-> blk.timestamp,
                trx_id |-> TrxIdOf(blk, e), op |-> e.op,
                object_id |-> object_id, new_objects |-> new_objects]
    /\ prev_cards' = cards
    /\ prev_perms' = perms
    /\ hist' = IF pass = 1 THEN Append(hist, e) ELSE hist
    /\ idx' = idx + 1
    /\ nops' = IF pass = 1 THEN nops + 1 ELSE nops
    /\ UNCHANGED <<blk, pc, pass, nblocks, first_cards, first_perms>>
    /\ UNCHANGED config
    /\ UNCHANGED room

\* one iteration of the loop of on_block that calls no handler
Skip(e) ==
    /\ call' = NoCall
    /\ prev_cards' = cards
    /\ prev_perms' = perms
    /\ hist' = IF pass = 1 THEN Append(hist, e) ELSE hist
    /\ idx' = idx + 1
    /\ nops' = IF pass = 1 THEN nops + 1 ELSE nops
    /\ UNCHANGED <<cards, perms, log, faults_left>>
    /\ UNCHANGED <<blk, pc, pass, nblocks, first_cards, first_perms>>
    /\ UNCHANGED config
    /\ UNCHANGED room

\* on_block that returns at an absent entry of the applied-operation list
return_at_absent ==
    \E e \in Entries :
        /\ Take(e) /\ ~e.valid
        /\ pc' = "idle"
        /\ call' = NoCall
        /\ prev_cards' = cards
        /\ prev_perms' = perms
        /\ hist' = IF pass = 1 THEN Append(hist, e) ELSE hist
        /\ idx' = idx + 1
        /\ nops' = IF pass = 1 THEN nops + 1 ELSE nops
        /\ UNCHANGED <<cards, perms, log, faults_left>>
        /\ UNCHANGED <<blk, pass, nblocks, first_cards, first_perms>>
        /\ UNCHANGED config
        /\ UNCHANGED room

\* if (!o_op.valid()) continue
skip_absent ==
    \E e \in Entries : Take(e) /\ ~e.valid /\ Skip(e)

on_content_card_create ==
    \E e \in Entries :
        /\ Take(e) /\ e.valid /\ e.which = 41
        /\ LET created_object_id == get_object_id_from_result(e.result)
           IN  Iterate(e, "handle_content_card_create", created_object_id, {},
                       handle_content_card_create(e.op, blk.num, blk.timestamp,
                                                  TrxIdOf(blk, e), created_object_id))

on_content_card_update ==
    \E e \in Entries :
        /\ Take(e) /\ e.valid /\ e.which = 42
        /\ LET created_object_id == get_object_id_from_result(e.result)
           IN  Iterate(e, "handle_content_card_update", created_object_id, {},
                       handle_content_card_update(e.op, blk.num, blk.timestamp,
                                                  TrxIdOf(blk, e), created_object_id))

on_content_card_remove ==
    \E e \in Entries :
        /\ Take(e) /\ e.valid /\ e.which = 43
        /\ Iterate(e, "handle_content_card_remove", "", {},
                   handle_content_card_remove(e.op, blk.num, blk.timestamp, TrxIdOf(blk, e)))

on_permission_create ==
    \E e \in Entries :
        /\ Take(e) /\ e.valid /\ e.which = 44
        /\ LET created_object_id == get_object_id_from_result(e.result)
           IN  Iterate(e, "handle_permission_create", created_object_id, {},
                       handle_permission_create(e.op, blk.num, blk.timestamp,
                                                TrxIdOf(blk, e), created_object_id))

on_permission_remove ==
    \E e \in Entries :
        /\ Take(e) /\ e.valid /\ e.which = 45
        /\ Iterate(e, "handle_permission_remove", "", {},
                   handle_permission_remove(e.op, blk.num, blk.timestamp, TrxIdOf(blk, e)))

on_permission_create_many ==
    \E e \in Entries :
        /\ Take(e) /\ e.valid /\ e.which = 64
        /\ LET new_objects == IF e.result.which = 3 THEN e.result.new_objects ELSE {}
           IN  Iterate(e, "handle_permission_create_many", "", new_objects,
                       handle_permission_create_many(e.op, blk.num, blk.timestamp,
                                                     TrxIdOf(blk, e), new_objects))

\* on_block that returns at an operation kind it does not know
return_at_unrecognized ==
    \E e \in Entries :
        /\ Take(e) /\ e.valid /\ e.which \notin {41, 42, 43, 44, 45, 64}
        /\ pc' = "idle"
        /\ call' = NoCall
        /\ prev_cards' = cards
        /\ prev_perms' = perms
        /\ hist' = IF pass = 1 THEN Append(hist, e) ELSE hist
        /\ idx' = idx + 1
        /\ nops' = IF pass = 1 THEN nops + 1 ELSE nops
        /\ UNCHANGED <<cards, perms, log, faults_left>>
        /\ UNCHANGED <<blk, pass, nblocks, first_cards, first_perms>>
        /\ UNCHANGED config
        /\ UNCHANGED room

\* an operation of a kind that none of the branches of on_block matches
skip_unrecognized ==
    \E e \in Entries :
        /\ Take(e) /\ e.valid /\ e.which \notin {41, 42, 43, 44, 45, 64}
        /\ Skip(e)

\* the for loop of on_block ends and on_block returns
end_block ==
    /\ pc = "loop"
    /\ pass = 1 \/ idx = Len(hist)
    /\ pc' = "idle"
    /\ UNCHANGED <<blk, hist, idx, pass, call, log, nblocks, nops, faults_left>>
    /\ UNCHANGED <<store, config>>
    /\ UNCHANGED room

Next ==
    \/ plugin_initialize_disabled
    \/ plugin_initialize
    \/ plugin_startup_disabled
    \/ plugin_startup_no_connection
    \/ plugin_startup
    \/ applied_block
    \/ skip_absent
    \/ on_content_card_create
    \/ on_content_card_update
    \/ on_content_card_remove
    \/ on_permission_create
    \/ on_permission_remove
    \/ on_permission_create_many
    \/ skip_unrecognized
    \/ end_block

Spec == Init /\ [][Next]_vars

(***************************************************************************)
(* Replay: the chain delivers a block again (a restart that replays the    *)
(* chain into the same store).  The store is healthy: it fails no          *)
(* statement for a reason of its own.                                      *)
(***************************************************************************)
InitReplay ==
    /\ phase = "constructed"
    /\ _postgres_url = ""
    /\ _start_block = 0
    /\ pg_conn = FALSE
    /\ subscribed = FALSE
    /\ tables_exist = FALSE
    /\ cards = EmptyTable
    /\ perms = EmptyTable
    /\ blk = NoBlock
    /\ hist = <<>>
    /\ idx = 0
    /\ pc = "idle"
    /\ pass = 0
    /\ call = NoCall
    /\ log = <<>>
    /\ prev_cards = EmptyTable
    /\ prev_perms = EmptyTable
    /\ first_cards = EmptyTable
    /\ first_perms = EmptyTable
    /\ nblocks = 0
    /\ nops = 0
    /\ faults_left = 0
    /\ room_op = NoRoomOp
    /\ room_valid = "unchecked"

NextReplay == Next \/ replayed_block

SpecReplay == InitReplay /\ [][NextReplay]_vars

(***************************************************************************)
(* Resumption: the plugin starts against the store an earlier session      *)
(* left behind (CREATE TABLE IF NOT EXISTS keeps its tables and rows).     *)
(* That session projected, in blocks 98 and 99, a content-card create and  *)
(* a permission create followed by their removes.  The store is healthy.   *)
(***************************************************************************)
EarlierCards ==
    "1.7.3" :> [content_card_id |-> "1.7.3", subject_account |-> "1.2.5",
                hash |-> "abcd", url |-> "ipfs://a", type |-> "post",
                description |-> "first", content_key |-> "k1", storage_data |-> "s1",
                block_num |-> 99, block_time |-> 1700000297, trx_id |-> TrxId(98, 0),
                operation_type |-> 43, is_removed |-> TRUE]

EarlierPerms ==
    "1.8.1" :> [permission_id |-> "1.8.1", subject_account |-> "1.2.5",
                operator_account |-> "1.2.6", permission_type |-> "view",
                object_id |-> "1.7.3", content_key |-> "ck1",
                block_num |-> 99, block_time |-> 1700000297, trx_id |-> TrxId(98, 0),
                operation_type |-> 45, is_removed |-> TRUE]

InitResumed ==
    /\ phase = "constructed"
    /\ _postgres_url = ""
    /\ _start_block = 0
    /\ pg_conn = FALSE
    /\ subscribed = FALSE
    /\ tables_exist = TRUE
    /\ cards = EarlierCards
    /\ perms = EarlierPerms
    /\ blk = NoBlock
    /\ hist = <<>>
    /\ idx = 0
    /\ pc = "idle"
    /\ pass = 0
    /\ call = NoCall
    /\ log = <<>>
    /\ prev_cards = EarlierCards
    /\ prev_perms = EarlierPerms
    /\ first_cards = EmptyTable
    /\ first_perms = EmptyTable
    /\ nblocks = 0
    /\ nops = 0
    /\ faults_left = 0
    /\ room_op = NoRoomOp
    /\ room_valid = "unchecked"

SpecResumed == InitResumed /\ [][Next]_vars

(***************************************************************************)
(* Validation of room operations: an operation is handed to its            *)
(* validate(), which accepts it or throws.                                 *)
(***************************************************************************)
InitRoom ==
    /\ phase = "constructed"
    /\ _postgres_url = ""
    /\ _start_block = 0
    /\ pg_conn = FALSE
    /\ subscribed = FALSE
    /\ tables_exist = FALSE
    /\ cards = EmptyTable
    /\ perms = EmptyTable
    /\ blk = NoBlock
    /\ hist = <<>>
    /\ idx = 0
    /\ pc = "idle"
    /\ pass = 0
    /\ call = NoCall
    /\ log = <<>>
    /\ prev_cards = EmptyTable
    /\ prev_perms = EmptyTable
    /\ first_cards = EmptyTable
    /\ first_perms = EmptyTable
    /\ nblocks = 0
    /\ nops = 0
    /\ faults_left = 0
    /\ room_op \in RoomCreates \cup RoomUpdates
    /\ room_valid = "unchecked"

room_create_validate ==
    /\ room_valid = "unchecked"
    /\ room_op.kind = "room_create_operation"
    /\ room_valid' = IF room_create_operation_validate(room_op)
                     THEN "accepted" ELSE "rejected"
    /\ UNCHANGED room_op
    /\ UNCHANGED <<config, store, projection>>

room_update_validate ==
    /\ room_valid = "unchecked"
    /\ room_op.kind = "room_update_operation"
    /\ room_valid' = IF room_update_operation_validate(room_op)
                     THEN "accepted" ELSE "rejected"
    /\ UNCHANGED room_op
    /\ UNCHANGED <<config, store, projection>>

NextRoom == room_create_validate \/ room_update_validate

SpecRoom == InitRoom /\ [][NextRoom]_vars

(***************************************************************************)
(* Properties.  They read the latest loop iteration of on_block: the        *)
(* handler call, the statements it gave to execute_sql with their outcomes, *)
(* and the tables before and after it.                                      *)
(***************************************************************************)
TableNow(table) == IF table = CardsTable THEN cards ELSE perms
TableBefore(table) == IF table = CardsTable THEN prev_cards ELSE prev_perms

\* the key a statement addresses
KeyOf(sql) ==
    Unquote(IF sql.verb = "INSERT" THEN sql.values[UniqueColumn(sql.table)] ELSE sql.where)

\* the positions in log of the statements of the latest handler call
Latest == {n \in 1..Len(log) : call.handler # "none" /\ log[n].at = idx}

\* the operation code a handler stamps on the rows it writes
CodeOf(handler) ==
    CASE handler = "handle_content_card_create" -> 41
      [] handler = "handle_content_card_update" -> 42
      [] handler = "handle_content_card_remove" -> 43
      [] handler = "handle_permission_create" -> 44
      [] handler = "handle_permission_remove" -> 45
      [] handler = "handle_permission_create_many" -> 64

\* C1 (as stated): when a block has been projected and then projected a
\* second time, both tables hold, for every entity id, exactly the rows they
\* held after the first projection.
C1_ReplayLeavesSameRows ==
    (pc = "idle" /\ pass = 2) => (cards = first_cards /\ perms = first_perms)

\* C2 (as stated): after a successful write to an entity id that an earlier
\* write has left a row for, the lifecycle metadata of the row (block number,
\* block time, transaction id, operation kind) are those of the later write.
C2_LaterWriteWinsLifecycle ==
    \A n \in Latest :
        (log[n].ok /\ KeyOf(log[n].sql) \in DOMAIN TableBefore(log[n].sql.table)) =>
            /\ TableNow(log[n].sql.table)[KeyOf(log[n].sql)].block_num = call.block_num
            /\ TableNow(log[n].sql.table)[KeyOf(log[n].sql)].block_time = call.block_time
            /\ TableNow(log[n].sql.table)[KeyOf(log[n].sql)].trx_id = call.trx_id
            /\ TableNow(log[n].sql.table)[KeyOf(log[n].sql)].operation_type
                  = CodeOf(call.handler)

IsUpdate(e) == e.valid /\ e.which = 42

\* the statement at position n of log writes the payload of the card the
\* statement at position m addresses, after the iteration of statement m
OverwritesLater(n, m) ==
    /\ log[n].at > log[m].at
    /\ log[n].ok
    /\ log[n].sql.verb = "INSERT"
    /\ log[n].sql.table = CardsTable
    /\ KeyOf(log[n].sql) = KeyOf(log[m].sql)

\* C3: when on_block has finished a block holding two content-card updates
\* that resolve to the same content-card id, the second of which the store
\* accepted and no later operation of the block rewrote, the row of that id
\* carries the hash, url, type, description, content key and storage data of
\* the second update, whatever the first update carried.
C3_SecondUpdateWins ==
    pc = "idle" =>
        \A m, n \in 1..Len(log) :
            ( /\ log[m].at < log[n].at
              /\ IsUpdate(hist[log[m].at]) /\ IsUpdate(hist[log[n].at])
              /\ KeyOf(log[m].sql) = KeyOf(log[n].sql)
              /\ log[n].ok
              /\ ~\E k \in 1..Len(log) : OverwritesLater(k, n) )
            => /\ KeyOf(log[n].sql) \in DOMAIN cards
               /\ \A c \in CardMutable :
                     cards[KeyOf(log[n].sql)][c] = hist[log[n].at].op[c]

\* C3 witness: a finished block of two accepted updates of card 1.7.3 with
\* different payloads, the row carrying the second payload
C3_Witness ==
    /\ pc = "idle"
    /\ Len(hist) = 2 /\ Len(log) = 2
    /\ IsUpdate(hist[1]) /\ IsUpdate(hist[2])
    /\ hist[1].op = P1 /\ hist[2].op = P2
    /\ log[1].ok /\ log[2].ok
    /\ KeyOf(log[1].sql) = "1.7.3" /\ KeyOf(log[2].sql) = "1.7.3"
    /\ cards["1.7.3"].hash = "ef01"

\* the resolver of the specification: the new identifiers of an execution
\* result, in order
ResolvedIds(result) ==
    CASE result.which = 1 -> <<OidStr(result.id)>>
      [] result.which = 3 ->
            [i \in 1..Cardinality(result.new_objects) |->
                OidStr(FlatSetSeq(result.new_objects)[i])]
      [] OTHER -> <<>>

\* the new identifiers the latest handler call was given
HandedIds ==
    IF call.handler = "handle_permission_create_many"
    THEN [i \in 1..Cardinality(call.new_objects) |-> OidStr(FlatSetSeq(call.new_objects)[i])]
    ELSE IF call.object_id = "" THEN <<>> ELSE <<call.object_id>>

Creates ==
    {"handle_content_card_create", "handle_content_card_update",
     "handle_permission_create", "handle_permission_create_many"}

\* C4 (as stated): the new identifiers handed to the handler of a create
\* (content-card create, content-card update, permission create, bulk
\* permission create) are the resolver's sequence for the operation's result:
\* the single identifier, the identifiers of the generic result's set in the
\* set's order, or none.
C4_HandlerGetsResolvedIds ==
    call.handler \in Creates => HandedIds = ResolvedIds(hist[idx].result)

\* the key the placeholder policy gives the row of the latest single create
PolicyKey ==
    IF call.object_id = "" THEN "pending-" \o call.trx_id ELSE call.object_id

\* C5 (as stated): when the store fails nothing of its own, a content-card
\* create or permission create leaves its row written under the resolved
\* identifier, or under pending-<transaction id> when none was resolved, and
\* the rows that were under other keys are still there.
C5_CreateWrittenUnderPolicyKey ==
    \A n \in Latest :
        ( /\ call.handler \in {"handle_content_card_create", "handle_permission_create"}
          /\ tables_exist /\ ~log[n].fault )
        => /\ PolicyKey \in DOMAIN TableNow(log[n].sql.table)
           /\ \A k \in DOMAIN TableBefore(log[n].sql.table) \ {PolicyKey} :
                 TableNow(log[n].sql.table)[k] = TableBefore(log[n].sql.table)[k]

\* the key the placeholder policy gives item i (from 1) of the latest bulk create
BulkPolicyKey(i) ==
    IF i <= Len(HandedIds) THEN HandedIds[i]
    ELSE "pending-" \o call.trx_id \o "-" \o ToString(i - 1)

\* C6 (as stated): when the store fails nothing of its own, a bulk permission
\* create of N items with K < N resolved identifiers leaves N distinct rows:
\* K under the resolved identifiers and N-K under the pairwise distinct keys
\* pending-<trx>-<index>, index being the position of the item in the array.
C6_BulkYieldsDistinctRows ==
    ( /\ call.handler = "handle_permission_create_many"
      /\ tables_exist
      /\ \A n \in Latest : ~log[n].fault
      /\ Len(HandedIds) < Len(call.op.permissions) )
    => /\ \A i \in 1..Len(call.op.permissions) : BulkPolicyKey(i) \in DOMAIN perms
       /\ Cardinality({BulkPolicyKey(i) : i \in 1..Len(call.op.permissions)})
             = Len(call.op.permissions)

\* the text of an optional object id: empty when absent
OptionalOidStr(o) == IF o.valid THEN OidStr(o.value) ELSE ""

\* C7: a bulk permission create of N items gives execute_sql exactly N
\* inserts into the permissions table, in array order; insert i carries the
\* subject account of the operation and the operator account, permission
\* type, referenced object id and content key of item i, and is keyed by the
\* i-th of the identifiers handed to the handler (in the order of their set)
\* while they last and by pending-<trx>-<i> afterwards; identifiers beyond N
\* appear in no insert.
C7_BulkPairsItemsWithIds ==
    call.handler = "handle_permission_create_many" =>
        /\ Cardinality(Latest) = Len(call.op.permissions)
        /\ \A n \in Latest :
              LET i == 1 + Cardinality({m \in Latest : m < n})
              IN  /\ log[n].sql.verb = "INSERT"
                  /\ log[n].sql.table = PermsTable
                  /\ KeyOf(log[n].sql) = BulkPolicyKey(i)
                  /\ Unquote(log[n].sql.values.subject_account)
                        = OidStr(call.op.subject_account)
                  /\ Unquote(log[n].sql.values.operator_account)
                        = OidStr(call.op.permissions[i].operator_account)
                  /\ Unquote(log[n].sql.values.permission_type)
                        = call.op.permissions[i].permission_type
                  /\ Unquote(log[n].sql.values.object_id)
                        = OptionalOidStr(call.op.permissions[i].object_id)
                  /\ Unquote(log[n].sql.values.content_key)
                        = call.op.permissions[i].content_key

\* C7 witness: a bulk create of two different items handed two identifiers,
\* both inserts accepted, each row carrying the fields of its item
C7_Witness ==
    /\ call.handler = "handle_permission_create_many"
    /\ Len(call.op.permissions) = 2
    /\ call.op.permissions[1] = I2 /\ call.op.permissions[2] = I1
    /\ Len(HandedIds) = 2
    /\ Cardinality(Latest) = 2
    /\ \A n \in Latest : log[n].ok
    /\ perms["1.8.1"].permission_type = "edit"
    /\ perms["1.8.2"].permission_type = "view"

\* the full row a content-card handler proposes for the key
FullCardRow(key, code) ==
    [content_card_id |-> key,
     subject_account |-> OidStr(call.op.subject_account),
     hash |-> call.op.hash, url |-> call.op.url, type |-> call.op.type,
     description |-> call.op.description, content_key |-> call.op.content_key,
     storage_data |-> call.op.storage_data,
     block_num |-> call.block_num, block_time |-> call.block_time,
     trx_id |-> call.trx_id, operation_type |-> code, is_removed |-> FALSE]

\* C8: a content-card create the store accepts inserts, when no row has the
\* id, the full row (the attributes of the operation, number and time of the
\* block, the transaction id, code 41, is_removed false); when a row has the
\* id it overwrites hash, url, type, description, content key and storage
\* data and leaves every other column of that row as it was.
C8_CardCreateFrame ==
    \A n \in Latest :
        (call.handler = "handle_content_card_create" /\ log[n].ok) =>
            /\ KeyOf(log[n].sql) \in DOMAIN cards
            /\ KeyOf(log[n].sql) \notin DOMAIN prev_cards =>
                  cards[KeyOf(log[n].sql)] = FullCardRow(KeyOf(log[n].sql), 41)
            /\ KeyOf(log[n].sql) \in DOMAIN prev_cards =>
                  \A c \in DOMAIN CardSchema :
                      cards[KeyOf(log[n].sql)][c] =
                          IF c \in CardMutable THEN call.op[c]
                          ELSE prev_cards[KeyOf(log[n].sql)][c]

\* C8 witness: an accepted create on the id of a row an update left, which
\* differs from the create in payload, subject account and operation code
C8_Witness ==
    /\ call.handler = "handle_content_card_create"
    /\ \E n \in Latest : log[n].ok /\ KeyOf(log[n].sql) = "1.7.3"
    /\ "1.7.3" \in DOMAIN prev_cards
    /\ prev_cards["1.7.3"].hash = "ef01" /\ cards["1.7.3"].hash = "abcd"
    /\ cards["1.7.3"].subject_account = "1.2.6"
    /\ cards["1.7.3"].operation_type = 42

\* C9 (as stated): a content-card update the store accepts on an existing id
\* leaves the row with the mutable fields of the update and with its
\* lifecycle metadata: block number, block time, transaction id, code 42 and
\* is_removed false; on an absent id it inserts the full row.
C9_CardUpdateOverwritesLifecycle ==
    \A n \in Latest :
        (call.handler = "handle_content_card_update" /\ log[n].ok) =>
            /\ KeyOf(log[n].sql) \in DOMAIN cards
            /\ KeyOf(log[n].sql) \notin DOMAIN prev_cards =>
                  cards[KeyOf(log[n].sql)] = FullCardRow(KeyOf(log[n].sql), 42)
            /\ KeyOf(log[n].sql) \in DOMAIN prev_cards =>
                  \A c \in DOMAIN CardSchema \ {"content_card_id", "subject_account"} :
                      cards[KeyOf(log[n].sql)][c] = FullCardRow(KeyOf(log[n].sql), 42)[c]

\* the row a remove leaves of the row it found
RemovedRow(row) ==
    [row EXCEPT !.is_removed = TRUE, !.block_num = call.block_num,
                !.block_time = call.block_time, !.operation_type = CodeOf(call.handler)]

\* C10: a content-card remove or permission remove the store accepts, of an
\* id that has a row, turns that row into itself with is_removed true, the
\* number and time of the removing block and the remove code (43 or 45);
\* every other column of the row, every other row of the table and the other
\* table are as they were.
C10_RemoveFrame ==
    \A n \in Latest :
        ( /\ call.handler \in {"handle_content_card_remove", "handle_permission_remove"}
          /\ log[n].ok
          /\ KeyOf(log[n].sql) \in DOMAIN TableBefore(log[n].sql.table) )
        => /\ TableNow(log[n].sql.table) =
                 [TableBefore(log[n].sql.table) EXCEPT ![KeyOf(log[n].sql)] =
                     RemovedRow(TableBefore(log[n].sql.table)[KeyOf(log[n].sql)])]
           /\ log[n].sql.table = CardsTable => perms = prev_perms
           /\ log[n].sql.table = PermsTable => cards = prev_cards

\* C10 witness: permission 1.8.1, created in bulk next to 1.8.2 in block 100,
\* is removed in block 101
C10_Witness ==
    /\ call.handler = "handle_permission_remove"
    /\ \E n \in Latest : log[n].ok /\ KeyOf(log[n].sql) = "1.8.1"
    /\ DOMAIN prev_perms = {"1.8.1", "1.8.2"}
    /\ ~prev_perms["1.8.1"].is_removed /\ perms["1.8.1"].is_removed
    /\ prev_perms["1.8.1"].block_num = 100 /\ perms["1.8.1"].block_num = 101
    /\ perms["1.8.1"].operation_type = 45
    /\ perms["1.8.2"].operation_type = 64

Removes == {"handle_content_card_remove", "handle_permission_remove"}

\* C11: a content-card remove or permission remove of an id that has no row
\* inserts no row and changes no row: both tables are exactly as they were
\* before the operation.
C11_RemoveOfAbsentIsNoOp ==
    \A n \in Latest :
        ( /\ call.handler \in Removes
          /\ KeyOf(log[n].sql) \notin DOMAIN TableBefore(log[n].sql.table) )
        => cards = prev_cards /\ perms = prev_perms

\* C11 witness: the store accepts the remove of card 1.7.3 while the table
\* holds one other card and none with that id
C11_Witness ==
    /\ call.handler = "handle_content_card_remove"
    /\ \E n \in Latest : log[n].ok /\ KeyOf(log[n].sql) = "1.7.3"
    /\ DOMAIN prev_cards = {"pending-"}
    /\ cards = prev_cards

\* the item of the bulk create the statement at position n of log writes, or
\* the single permission create itself
PermItem(n) ==
    IF call.handler = "handle_permission_create_many"
    THEN call.op.permissions[1 + Cardinality({m \in Latest : m < n})]
    ELSE call.op

\* the full row a permission handler proposes for the key
FullPermRow(key, item) ==
    [permission_id |-> key,
     subject_account |-> OidStr(call.op.subject_account),
     operator_account |-> OidStr(item.operator_account),
     permission_type |-> item.permission_type,
     object_id |-> OptionalOidStr(item.object_id),
     content_key |-> item.content_key,
     block_num |-> call.block_num, block_time |-> call.block_time,
     trx_id |-> call.trx_id, operation_type |-> CodeOf(call.handler),
     is_removed |-> FALSE]

\* C12: a permission create, single or one item of a bulk create, that the
\* store accepts inserts the full row with is_removed false when no row has
\* the id; when a row has the id it overwrites permission type and content
\* key and leaves subject account, operator account, referenced object id,
\* block number, block time, transaction id, operation type and is_removed
\* as they were.
C12_PermissionCreateFrame ==
    \A n \in Latest :
        ( /\ call.handler \in {"handle_permission_create", "handle_permission_create_many"}
          /\ log[n].ok )
        => /\ KeyOf(log[n].sql) \in DOMAIN perms
           /\ KeyOf(log[n].sql) \notin DOMAIN prev_perms =>
                 perms[KeyOf(log[n].sql)] = FullPermRow(KeyOf(log[n].sql), PermItem(n))
           /\ KeyOf(log[n].sql) \in DOMAIN prev_perms =>
                 \A c \in DOMAIN PermSchema :
                     perms[KeyOf(log[n].sql)][c] =
                         IF c \in {"permission_type", "content_key"}
                         THEN PermItem(n)[c]
                         ELSE prev_perms[KeyOf(log[n].sql)][c]

\* C12 witness: an accepted single create on the id of a row that a bulk
\* create left with another operator, permission type and operation code
C12_Witness ==
    /\ call.handler = "handle_permission_create"
    /\ \E n \in Latest : log[n].ok /\ KeyOf(log[n].sql) = "1.8.1"
    /\ "1.8.1" \in DOMAIN prev_perms
    /\ prev_perms["1.8.1"].permission_type = "edit"
    /\ perms["1.8.1"].permission_type = "view"
    /\ perms["1.8.1"].operator_account = "1.2.7"
    /\ perms["1.8.1"].operation_type = 64

\* C13: a step that delivers a block whose number is below the configured
\* start block, or that follows within it, leaves on_block idle with no
\* statement issued and both tables as they were; a step that delivers the
\* block whose number equals the start block, over a live connection, enters
\* the loop over its operations.
C13_StartBlockGating ==
    [][ /\ (pass' >= 1 /\ blk'.num < _start_block') =>
              /\ pc' = "idle" /\ log' = <<>> /\ hist' = <<>>
              /\ cards' = cards /\ perms' = perms
        /\ (nblocks' = nblocks + 1 /\ pg_conn' /\ blk'.num = _start_block') =>
              pc' = "loop" ]_vars

\* C13 witness: with start block 101, block 100 has been delivered and then
\* block 101, an operation of which has been written
C13_Witness ==
    /\ _start_block = 101 /\ nblocks = 2 /\ blk.num = 101
    /\ \E n \in Latest : log[n].ok
    /\ cards # EmptyTable

\* the six operation kinds on_block projects
Projected == {41, 42, 43, 44, 45, 64}

Unrecognized(e) == e.valid /\ e.which \notin Projected
Recognized(e) == e.valid /\ e.which \in Projected

\* C14: the loop iteration of an applied operation of none of the six
\* projected kinds issues no statement, changes neither table nor the block
\* and connection the later operations are written with, and leaves on_block
\* in its loop; and after every iteration the statements issued so
\* far in the block are those of its operations of the six kinds, each of
\* which has been dispatched, whatever unrecognized operations precede it.
C14_UnrecognizedKindSkipped ==
    [][ idx' = idx + 1 =>
          /\ Unrecognized(hist'[idx']) =>
                /\ pc' = "loop"
                /\ log' = log /\ cards' = cards /\ perms' = perms
                /\ blk' = blk /\ pg_conn' = pg_conn /\ tables_exist' = tables_exist
          /\ \A j \in 1..idx' :
                Recognized(hist'[j]) <=> (\E n \in 1..Len(log') : log'[n].at = j) ]_vars

\* C14 witness: a transfer, then a content-card create in the same block,
\* whose row the store has accepted
C14_Witness ==
    /\ Len(hist) = 2 /\ idx = 2
    /\ Unrecognized(hist[1])
    /\ call.handler = "handle_content_card_create"
    /\ \E n \in Latest : log[n].ok /\ KeyOf(log[n].sql) = "1.7.3"
    /\ "1.7.3" \in DOMAIN cards

\* the number of statements the latest handler call is to issue
WritesOf(c) ==
    IF c.handler = "handle_permission_create_many" THEN Len(c.op.permissions) ELSE 1

\* the keys of the table that the accepted statements of the latest call address
AcceptedKeys(table) ==
    {KeyOf(log[m].sql) : m \in {k \in Latest : log[k].ok /\ log[k].sql.table = table}}

\* after the latest iteration every operation of the six kinds iterated so
\* far has had each of its writes attempted exactly once, and the rows that
\* the accepted statements of the latest call do not address are as they were
AttemptedAndKept ==
    /\ \A j \in 1..idx :
          Recognized(hist[j]) =>
              Cardinality({n \in 1..Len(log) : log[n].at = j})
                  = IF hist[j].which = 64 THEN Len(hist[j].op.permissions) ELSE 1
    /\ call.handler # "none" =>
          /\ Cardinality(Latest) = WritesOf(call)
          /\ \A k \in DOMAIN prev_cards \ AcceptedKeys(CardsTable) :
                k \in DOMAIN cards /\ cards[k] = prev_cards[k]
          /\ \A k \in DOMAIN prev_perms \ AcceptedKeys(PermsTable) :
                k \in DOMAIN perms /\ perms[k] = prev_perms[k]

\* C15: a loop iteration after which the store has reported failure for a
\* statement of the block leaves on_block in its loop; every write of the
\* handler call has been attempted exactly once (the later items of a bulk
\* create included, none retried), as has every write of the operations
\* iterated before, and the rows that the accepted statements of the call do
\* not address stay as the earlier operations wrote them.
C15_FailureContinuation ==
    [][ (idx' = idx + 1 /\ \E n \in 1..Len(log') : ~log'[n].ok) =>
            (pc' = "loop" /\ AttemptedAndKept') ]_vars

\* C15 witness: after a content-card create, the store fails the first
\* insert of a bulk create of two items and accepts the second
C15_Witness ==
    /\ call.handler = "handle_permission_create_many"
    /\ Cardinality(Latest) = 2
    /\ \E n \in Latest : ~log[n].ok /\ log[n].fault /\ KeyOf(log[n].sql) = "1.8.1"
    /\ \E n \in Latest : log[n].ok /\ KeyOf(log[n].sql) = "1.8.2"
    /\ DOMAIN perms = {"1.8.2"}
    /\ "1.7.3" \in DOMAIN cards

\* the row of the key in a table, or nothing
RowOf(tab, key) == IF key \in DOMAIN tab THEN <<tab[key]>> ELSE <<>>

\* C16: every write (a create, an update, a remove, one item of a bulk
\* create) is one statement, and a write the store fails leaves the row it
\* addresses as it was, absent or with every column unchanged; a call all of
\* whose writes fail leaves both tables exactly as they were.
C16_NoPartialWrite ==
    call.handler # "none" =>
        /\ Cardinality(Latest) = WritesOf(call)
        /\ \A n \in Latest :
              (~log[n].ok /\ KeyOf(log[n].sql) \notin AcceptedKeys(log[n].sql.table)) =>
                  RowOf(TableNow(log[n].sql.table), KeyOf(log[n].sql))
                      = RowOf(TableBefore(log[n].sql.table), KeyOf(log[n].sql))
        /\ (\A n \in Latest : ~log[n].ok) => (cards = prev_cards /\ perms = prev_perms)

\* C16 witness: the store fails the update of card 1.7.3, whose row keeps
\* the payload it had and takes none of the update's
C16_Witness ==
    /\ call.handler = "handle_content_card_update"
    /\ \E n \in Latest : ~log[n].ok /\ log[n].fault /\ KeyOf(log[n].sql) = "1.7.3"
    /\ call.op.hash = "ef01"
    /\ "1.7.3" \in DOMAIN prev_cards
    /\ cards["1.7.3"].hash = "abcd"
    /\ cards = prev_cards

\* the statements on_block has the handler of an applied operation build
StatementsOf(e, b) ==
    CASE e.which = 41 ->
            handle_content_card_create(e.op, b.num, b.timestamp, TrxIdOf(b, e),
                                       get_object_id_from_result(e.result))
      [] e.which = 42 ->
            handle_content_card_update(e.op, b.num, b.timestamp, TrxIdOf(b, e),
                                       get_object_id_from_result(e.result))
      [] e.which = 43 ->
            handle_content_card_remove(e.op, b.num, b.timestamp, TrxIdOf(b, e))
      [] e.which = 44 ->
            handle_permission_create(e.op, b.num, b.timestamp, TrxIdOf(b, e),
                                     get_object_id_from_result(e.result))
      [] e.which = 45 ->
            handle_permission_remove(e.op, b.num, b.timestamp, TrxIdOf(b, e))
      [] e.which = 64 ->
            handle_permission_create_many(e.op, b.num, b.timestamp, TrxIdOf(b, e),
                IF e.result.which = 3 THEN e.result.new_objects ELSE {})

\* a table of one content card, as a stand-in for any store contents
OneCard ==
    "1.7.3" :> [content_card_id |-> "1.7.3", subject_account |-> "1.2.5",
                hash |-> "abcd", url |-> "ipfs://a", type |-> "post",
                description |-> "first", content_key |-> "k1", storage_data |-> "s1",
                block_num |-> 99, block_time |-> 1700000297, trx_id |-> "",
                operation_type |-> 41, is_removed |-> FALSE]

\* C17: while the plugin has no live connection, execute_sql of any
\* statement a handler builds reports failure and hands back the store as it
\* was, and on_block of every delivered block has returned with no statement
\* issued and both tables unchanged.
C17_NoLiveConnection ==
    ~pg_conn =>
        /\ \A e \in {x \in Entries : Recognized(x)} :
              \A i \in 1..Len(StatementsOf(e, Block(100))) :
                  /\ execute_sql(StatementsOf(e, Block(100))[i], FALSE, cards, perms)
                        = [ok |-> FALSE, cards |-> cards, perms |-> perms]
                  /\ execute_sql(StatementsOf(e, Block(100))[i], FALSE, OneCard, perms)
                        = [ok |-> FALSE, cards |-> OneCard, perms |-> perms]
        /\ pass >= 1 =>
              /\ pc = "idle" /\ log = <<>> /\ hist = <<>>
              /\ cards = prev_cards /\ perms = prev_perms

\* C17 witness: two blocks have been delivered to a plugin whose connection
\* attempt failed
C17_Witness ==
    /\ ~pg_conn /\ subscribed
    /\ nblocks = 2 /\ blk.num = 101 /\ pass = 1
    /\ pc = "idle"

\* C18: once the connection attempt of startup has failed, the plugin holds
\* no connection, and no block delivered afterwards produces a write: no
\* statement is issued and both tables stay empty.
C18_ConnectionFailureFatal ==
    phase = "connect_failed" =>
        /\ ~pg_conn
        /\ pc = "idle"
        /\ log = <<>>
        /\ cards = EmptyTable /\ perms = EmptyTable

\* C18 witness: the connection attempt failed and two blocks were delivered
\* afterwards
C18_Witness ==
    /\ phase = "connect_failed"
    /\ nblocks = 2 /\ blk.num >= _start_block /\ pass = 1
    /\ log = <<>>

\* C19: once create_tables has failed in plugin_startup, no block delivered
\* afterwards to the applied_block handler produces a write: the store accepts
\* no statement of the plugin and both tables stay as startup left them.
\* The code leaves the connection open and the handler connected, so this
\* fails when the tables of an earlier session are in the store.
C19_BootstrapFailureFatal ==
    phase = "bootstrap_failed" =>
        /\ \A n \in 1..Len(log) : ~log[n].ok
        /\ cards = EmptyTable /\ perms = EmptyTable

\* C20: no step deletes a row or doubles an id: every id with a row before
\* the step has a row after it, in both tables, and every row sits under the
\* id its unique column holds, so each table has at most one row per id.
C20_RowsNeverDeleted ==
    [][/\ DOMAIN cards \subseteq DOMAIN cards'
       /\ DOMAIN perms \subseteq DOMAIN perms'
       /\ \A k \in DOMAIN cards' : cards'[k].content_card_id = k
       /\ \A k \in DOMAIN perms' : perms'[k].permission_id = k]_vars

\* C20 witness: a content card was created and then removed by a later
\* operation, and its row is still in the table, marked removed
C20_Witness ==
    /\ call.handler = "handle_content_card_remove"
    /\ \E n \in Latest : log[n].ok /\ KeyOf(log[n].sql) = "1.7.3"
    /\ "1.7.3" \in DOMAIN prev_cards /\ ~prev_cards["1.7.3"].is_removed
    /\ "1.7.3" \in DOMAIN cards /\ cards["1.7.3"].is_removed
    /\ cards["1.7.3"].content_card_id = "1.7.3"

\* the operation code a statement carries: in VALUES or in SET
StampOf(sql) ==
    IF sql.verb = "INSERT" THEN sql.values.operation_type ELSE sql.set.operation_type

\* C21: every statement issued for an applied operation carries as
\* operation_type the discriminant under which on_block routed that operation;
\* a statement the store accepts that inserts a new row, or that is an update
\* or a remove of an existing row, leaves that code on the row; and in every
\* state each content-card row has a code in {41, 42, 43} and each permission
\* row a code in {44, 45, 64}.
C21_CodesMatchDiscriminants ==
    /\ \A n \in 1..Len(log) :
          /\ Recognized(hist[log[n].at])
          /\ StampOf(log[n].sql) = to_string(hist[log[n].at].which)
    /\ \A n \in Latest :
          (/\ log[n].ok
           /\ KeyOf(log[n].sql) \in DOMAIN TableNow(log[n].sql.table)
           /\ \/ KeyOf(log[n].sql) \notin DOMAIN TableBefore(log[n].sql.table)
              \/ "operation_type" \in DOMAIN (IF log[n].sql.verb = "INSERT"
                                              THEN log[n].sql.conflict
                                              ELSE log[n].sql.set)) =>
              TableNow(log[n].sql.table)[KeyOf(log[n].sql)].operation_type
                  = hist[idx].which
    /\ \A k \in DOMAIN cards : cards[k].operation_type \in {41, 42, 43}
    /\ \A k \in DOMAIN perms : perms[k].operation_type \in {44, 45, 64}

\* C21 witness: a bulk permission create routed under 64 has written two rows
\* stamped 64 next to a content card stamped 41
C21_Witness ==
    /\ call.handler = "handle_permission_create_many"
    /\ hist[idx].which = 64
    /\ \A n \in Latest : log[n].ok /\ StampOf(log[n].sql) = "64"
    /\ DOMAIN perms = {"1.8.1", "1.8.2"}
    /\ perms["1.8.1"].operation_type = 64 /\ perms["1.8.2"].operation_type = 64
    /\ "1.7.3" \in DOMAIN cards /\ cards["1.7.3"].operation_type = 41

SingleCreates == {"handle_content_card_create", "handle_permission_create"}

\* the transaction-in-block index of the latest operation is within the
\* transaction list of the block
InRange == hist[idx].trx_in_block < Len(blk.transactions)

\* C22: the transaction id handed to the handler is the id of the block's
\* transaction at the operation's transaction-in-block index when the index
\* is within the list, and the empty string otherwise, and every insert
\* carries it as trx_id.  Out of range, the operation is dispatched all the
\* same: each of its writes is issued, a create with no resolved id is keyed
\* pending-, and what the store accepts is in the table, a new row with an
\* empty trx_id.
C22_TransactionIdResolution ==
    call.handler # "none" =>
        /\ InRange => call.trx_id = blk.transactions[hist[idx].trx_in_block + 1]
        /\ ~InRange => call.trx_id = ""
        /\ \A n \in Latest :
              log[n].sql.verb = "INSERT" => Unquote(log[n].sql.values.trx_id) = call.trx_id
        /\ ~InRange =>
              /\ Cardinality(Latest) = WritesOf(call)
              /\ \A n \in Latest :
                    /\ (call.handler \in SingleCreates /\ call.object_id = "") =>
                          KeyOf(log[n].sql) = "pending-"
                    /\ (log[n].ok /\ log[n].sql.verb = "INSERT") =>
                          /\ KeyOf(log[n].sql) \in DOMAIN TableNow(log[n].sql.table)
                          /\ KeyOf(log[n].sql) \notin DOMAIN TableBefore(log[n].sql.table) =>
                                TableNow(log[n].sql.table)[KeyOf(log[n].sql)].trx_id = ""

\* C22 witness: a content-card create at transaction-in-block index 2 of a
\* block of two transactions, with no resolved id, has been written under
\* pending- with an empty transaction id, after a create at index 1 that was
\* handed the id of the second transaction
C22_Witness ==
    /\ call.handler = "handle_content_card_create"
    /\ idx = 2
    /\ hist[1].valid /\ hist[1].trx_in_block = 1 /\ hist[2].trx_in_block = 2
    /\ Len(blk.transactions) = 2
    /\ call.trx_id = "" /\ call.object_id = ""
    /\ \E n \in Latest : log[n].ok /\ KeyOf(log[n].sql) = "pending-"
    /\ "pending-" \in DOMAIN cards /\ cards["pending-"].trx_id = ""
    /\ \E n \in 1..Len(log) :
          /\ log[n].at = 1 /\ log[n].sql.verb = "INSERT"
          /\ Unquote(log[n].sql.values.trx_id) = blk.transactions[2]

\* C23: a row of either table that is marked removed is marked removed after
\* every step, whatever create, update, bulk create or remove the step applies
\* to its id, in the same block or a later one.
C23_SoftDeleteSticky ==
    [][/\ \A k \in DOMAIN cards :
             cards[k].is_removed => (k \in DOMAIN cards' /\ cards'[k].is_removed)
       /\ \A k \in DOMAIN perms :
             perms[k].is_removed => (k \in DOMAIN perms' /\ perms'[k].is_removed)]_vars

\* C23 witness: an update the store accepted has rewritten the mutable fields
\* of a content card that was removed before, and the row is still removed
C23_Witness ==
    /\ call.handler = "handle_content_card_update"
    /\ \E n \in Latest : log[n].ok /\ KeyOf(log[n].sql) = "1.7.3"
    /\ "1.7.3" \in DOMAIN prev_cards /\ prev_cards["1.7.3"].is_removed
    /\ prev_cards["1.7.3"].operation_type = 43
    /\ cards["1.7.3"].operation_type = 42
    /\ cards["1.7.3"].is_removed

\* C24: no step changes the subject account or the transaction id of a row
\* that exists, nor the operator account or the referenced object id of a
\* permission row: they stay as the insert that created the row wrote them,
\* whatever create, update, bulk create or remove targets the id afterwards.
C24_IdentityColumnsWriteOnce ==
    [][/\ \A k \in DOMAIN cards \cap DOMAIN cards' :
             /\ cards'[k].subject_account = cards[k].subject_account
             /\ cards'[k].trx_id = cards[k].trx_id
       /\ \A k \in DOMAIN perms \cap DOMAIN perms' :
             /\ perms'[k].subject_account = perms[k].subject_account
             /\ perms'[k].trx_id = perms[k].trx_id
             /\ perms'[k].operator_account = perms[k].operator_account
             /\ perms'[k].object_id = perms[k].object_id]_vars

\* C24 witness: an update by another subject account, in another transaction,
\* was accepted on an existing content card and rewrote its hash; the row
\* keeps the subject account and the transaction id of its creation
C24_Witness ==
    /\ call.handler = "handle_content_card_update"
    /\ \E n \in Latest : log[n].ok /\ KeyOf(log[n].sql) = "1.7.3"
    /\ "1.7.3" \in DOMAIN prev_cards
    /\ OidStr(call.op.subject_account) = "1.2.6"
    /\ call.trx_id = TrxId(100, 1)
    /\ prev_cards["1.7.3"].hash = "abcd" /\ cards["1.7.3"].hash = "ef01"
    /\ cards["1.7.3"].subject_account = "1.2.5"
    /\ cards["1.7.3"].trx_id = TrxId(98, 0)

\* the key of a single-entity operation: the resolved id or the placeholder
\* of a create or an update, the id a remove names
SingleKey(c) ==
    CASE c.handler \in {"handle_content_card_create", "handle_content_card_update",
                        "handle_permission_create"} ->
            IF c.object_id = "" THEN "pending-" \o c.trx_id ELSE c.object_id
      [] c.handler = "handle_content_card_remove" -> OidStr(c.op.content_id)
      [] c.handler = "handle_permission_remove" -> OidStr(c.op.permission_id)

\* the two tables agree on every key but k: same rows, same absences
SameBut(k, before, after) ==
    \A j \in (DOMAIN before \cup DOMAIN after) \ {k} : RowOf(before, j) = RowOf(after, j)

\* C25: in every loop iteration of on_block, a content-card operation leaves
\* the permissions table as it was and a permission operation leaves the
\* content-cards table as it was; a single-entity operation changes at most
\* the row under the operation's key; and an absent entry of the
\* applied-operation list changes neither table, issues no statement and
\* leaves on_block in its loop.
C25_TableAndRowFrame ==
    [][idx' = idx + 1 =>
          /\ ~hist'[idx'].valid =>
                (pc' = "loop" /\ cards' = cards /\ perms' = perms /\ log' = log)
          /\ (hist'[idx'].valid /\ hist'[idx'].which \in {41, 42, 43}) =>
                (perms' = perms /\ SameBut(SingleKey(call'), cards, cards'))
          /\ (hist'[idx'].valid /\ hist'[idx'].which \in {44, 45}) =>
                (cards' = cards /\ SameBut(SingleKey(call'), perms, perms'))
          /\ (hist'[idx'].valid /\ hist'[idx'].which = 64) => cards' = cards]_vars

\* C25 witness: after an absent entry the loop went on to a content-card
\* create, which wrote its row, and the permissions table is as it was
C25_Witness ==
    /\ idx = 2 /\ ~hist[1].valid
    /\ call.handler = "handle_content_card_create"
    /\ \E n \in Latest : log[n].ok /\ KeyOf(log[n].sql) = "1.7.3"
    /\ "1.7.3" \in DOMAIN cards /\ "1.7.3" \notin DOMAIN prev_cards
    /\ DOMAIN cards = {"1.7.3"} /\ perms = prev_perms

\* C26: validate() of a room create and of a room update rejects the
\* operation when the fee amount is negative, when the name is empty and when
\* the name is longer than 256 chars; the room create also when the room key
\* is empty; and it accepts every operation that meets these conditions, a
\* name of exactly 256 chars included.
C26_RoomNameValidation ==
    room_valid # "unchecked" =>
        /\ room_op.fee.amount < 0 => room_valid = "rejected"
        /\ room_op.name = "" => room_valid = "rejected"
        /\ Len(room_op.name) > RoomNameMax => room_valid = "rejected"
        /\ (room_op.kind = "room_create_operation" /\ room_op.room_key = "") =>
              room_valid = "rejected"
        /\ (/\ room_op.fee.amount >= 0
            /\ Len(room_op.name) \in 1..RoomNameMax
            /\ room_op.kind = "room_create_operation" => room_op.room_key # "") =>
              room_valid = "accepted"

\* C26 witness: a room create with a name of exactly 256 chars, a fee of zero
\* and a room key has been accepted
C26_Witness ==
    /\ room_op.kind = "room_create_operation"
    /\ Len(room_op.name) = RoomNameMax
    /\ room_op.fee.amount = 0
    /\ room_op.room_key # ""
    /\ room_valid = "accepted"

====
